---- MODULE Spec2Model ----
\* A model of the voxel-grid engine of presentation.py: the rotation transform,
\* the Brick value type, and CubeGrid with its occupancy array, placement
\* registry, id counter, placement caches and JSON persistence.
EXTENDS Integers, Sequences, FiniteSets, TLC

\* ---------------------------------------------------------------- bounds
\* place is not called once next_id has passed MaxId.
MaxId == 2
\* The edge lengths a grid is constructed with, CubeGrid(size).
Sizes == {2, 3}

\* ---------------------------------------------------------------- state
VARIABLES
    size,              \* CubeGrid.size
    grid,              \* CubeGrid.grid: cell -> placement id, 0 = empty
    next_id,           \* CubeGrid.next_id
    placed,            \* CubeGrid.placed: insertion-ordered dict, id -> (pid, brick, pos)
    valid_placements,  \* CubeGrid.valid_placements: name -> set of origins
    files,             \* the file system: path -> JSON document, or NoFile
    saved,             \* history: path -> the grid fields at the time of the save
    issued             \* history: the ids place has returned since the grid was
                       \* constructed, cleared or loaded

vars == <<size, grid, next_id, placed, valid_placements, files, saved, issued>>

\* ---------------------------------------------------------------- rotation
rot_x(a) == <<a[1], -a[3], a[2]>>
rot_y(a) == <<a[3], a[2], -a[1]>>
rot_z(a) == <<-a[2], a[1], a[3]>>

RECURSIVE Iterate(_, _, _)
\* for _ in range(k): a = rot(a), with rot chosen by axis
Iterate(axis, k, a) ==
    IF k <= 0 THEN a
    ELSE Iterate(axis, k - 1,
                 CASE axis = "x" -> rot_x(a)
                   [] axis = "y" -> rot_y(a)
                   [] OTHER      -> rot_z(a))

\* The three loops in the opposite order: Z-steps, then Y-steps, then X-steps.
rotate_point_zyx(p, rx, ry, rz) ==
    Iterate("x", rx % 4, Iterate("y", ry % 4, Iterate("z", rz % 4, p)))

rotate_point(p, rx, ry, rz) ==
    Iterate("z", rz % 4, Iterate("y", ry % 4, Iterate("x", rx % 4, p)))

\* ---------------------------------------------------------------- Brick
\* Brick.__init__: exactly 4 cubes, an empty name becomes "brick".
BrickOk(cubes) == Len(cubes) = 4
Brick(cubes, name) ==
    [cubes |-> cubes, name |-> IF name = "" THEN "brick" ELSE name]

rotated(b, rx, ry, rz) ==
    Brick([i \in 1..Len(b.cubes) |-> rotate_point(b.cubes[i], rx, ry, rz)], b.name)

SetMin(S) == CHOOSE m \in S : \A s \in S : m <= s
SetMax(S) == CHOOSE m \in S : \A s \in S : m >= s

\* A shift that moves the first cube to the origin instead of the minimum.
normalized_to_first(b) ==
    Brick([i \in 1..Len(b.cubes) |-> <<b.cubes[i][1] - b.cubes[1][1],
                                       b.cubes[i][2] - b.cubes[1][2],
                                       b.cubes[i][3] - b.cubes[1][3]>>], b.name)

normalized(b) ==
    LET idx  == 1..Len(b.cubes)
        minx == SetMin({b.cubes[i][1] : i \in idx})
        miny == SetMin({b.cubes[i][2] : i \in idx})
        minz == SetMin({b.cubes[i][3] : i \in idx})
    IN  Brick([i \in idx |-> <<b.cubes[i][1] - minx, b.cubes[i][2] - miny,
                               b.cubes[i][3] - minz>>], b.name)

\* The five default templates (CubeGrid.bricks and sample_bricks()).
Names == {"T", "I", "L", "O", "S3D"}
bricks ==
    [n \in Names |->
        CASE n = "T"   -> Brick(<< <<0,0,0>>, <<1,0,0>>, <<2,0,0>>, <<1,1,0>> >>, "T")
          [] n = "I"   -> Brick(<< <<0,0,0>>, <<1,0,0>>, <<2,0,0>>, <<3,0,0>> >>, "I")
          [] n = "L"   -> Brick(<< <<0,0,0>>, <<1,0,0>>, <<2,0,0>>, <<2,1,0>> >>, "L")
          [] n = "O"   -> Brick(<< <<0,0,0>>, <<1,0,0>>, <<0,1,0>>, <<1,1,0>> >>, "O")
          [] OTHER     -> Brick(<< <<0,0,0>>, <<1,0,0>>, <<1,1,0>>, <<1,1,1>> >>, "S3D")]

\* ---------------------------------------------------------------- grid helpers
Cells(n) == (0..(n - 1)) \X (0..(n - 1)) \X (0..(n - 1))
InBounds(n, c) ==
    /\ 0 <= c[1] /\ c[1] < n
    /\ 0 <= c[2] /\ c[2] < n
    /\ 0 <= c[3] /\ c[3] < n
Add(p, c) == <<p[1] + c[1], p[2] + c[2], p[3] + c[3]>>
\* np.zeros((size, size, size), dtype=int)
Zeros(n) == [c \in Cells(n) |-> 0]

\* The absolute cells of a brick put at pos, in cube order.
AbsCells(b, pos) == [i \in 1..Len(b.cubes) |-> Add(pos, b.cubes[i])]
Footprint(b, pos) == {Add(pos, b.cubes[i]) : i \in 1..Len(b.cubes)}

RECURSIVE WriteCells(_, _, _, _)
\* for c in cells[i..]: grid[c] = v   (cells already known to be in bounds)
WriteCells(g, cells, i, v) ==
    IF i > Len(cells) THEN g
    ELSE WriteCells([g EXCEPT ![cells[i]] = v], cells, i + 1, v)

\* ---------------------------------------------------------------- dict helpers
\* A Python dict as the sequence of its items in insertion order.
DictKeys(d) == {d[i].key : i \in 1..Len(d)}
DictHas(d, k) == k \in DictKeys(d)
DictIndex(d, k) == CHOOSE i \in 1..Len(d) : d[i].key = k
DictGet(d, k) == d[DictIndex(d, k)].val
\* d[k] = v: an existing key keeps its place, a new key goes last
DictSet(d, k, v) ==
    IF DictHas(d, k) THEN [d EXCEPT ![DictIndex(d, k)] = [key |-> k, val |-> v]]
    ELSE Append(d, [key |-> k, val |-> v])
\* d.pop(k) for a key that is present
DictPop(d, k) ==
    LET j == DictIndex(d, k)
    IN  [i \in 1..(Len(d) - 1) |-> IF i < j THEN d[i] ELSE d[i + 1]]

\* ---------------------------------------------------------------- CubeGrid
\* The (rx, ry, rz) triples of the construction loops, range(4) on each axis.
Rots == (0..3) \X (0..3) \X (0..3)

can_place(g, brick, pos) ==
    \A i \in 1..Len(brick.cubes) :
        LET c == Add(pos, brick.cubes[i])
        IN  InBounds(g.size, c) /\ g.grid[c] = 0

\* The orientation objects built for one template: one Brick object per
\* (rx, ry, rz); Brick defines no __eq__/__hash__, so the Python set holds
\* every object that was added to it.
all_rotations(name) ==
    [r \in Rots |-> normalized(rotated(bricks[name], r[1], r[2], r[3]))]

\* CubeGrid.valid_rotations. Like CubeGrid.bricks it is written once, by
\* __init__, from the templates alone, and no method assigns it again: the
\* model holds both as definitions instead of variables.
valid_rotations == [name \in Names |-> all_rotations(name)]

\* CubeGrid.__init__
CubeGrid(n) ==
    LET empty == [size |-> n, grid |-> Zeros(n), next_id |-> 1, placed |-> <<>>]
    IN  [size |-> n,
         grid |-> Zeros(n),
         next_id |-> 1,
         placed |-> <<>>,
         valid_placements |->
            [name \in Names |->
                {c \in Cells(n) :
                    \E r \in Rots : can_place(empty, valid_rotations[name][r], c)}]]

\* clear that leaves the id counter where it is.
clear_keep_next_id(g) ==
    [self |-> [g EXCEPT !.grid = [c \in DOMAIN g.grid |-> 0],
                        !.placed = <<>>],
     raised |-> ""]

clear(g) ==
    [self |-> [g EXCEPT !.grid = [c \in DOMAIN g.grid |-> 0],
                        !.next_id = 1,
                        !.placed = <<>>],
     raised |-> ""]

\* place with the id allocated before the fit is checked.
place_alloc_first(g, brick, pos) ==
    LET pid == g.next_id
        g1  == [g EXCEPT !.next_id = g.next_id + 1]
    IN  IF ~can_place(g, brick, pos)
        THEN [self |-> g1, raised |-> "ValueError"]
        ELSE [self |-> [g1 EXCEPT
                          !.grid = WriteCells(g.grid, AbsCells(brick, pos), 1, pid),
                          !.placed = DictSet(g.placed, pid, <<pid, brick, pos>>)],
              raised |-> "", ret |-> pid]

\* place with the counter advanced before the id is taken.
place_post_inc(g, brick, pos) ==
    IF ~can_place(g, brick, pos)
    THEN [self |-> g, raised |-> "ValueError"]
    ELSE LET pid == g.next_id + 1
         IN  [self |-> [g EXCEPT
                          !.grid = WriteCells(g.grid, AbsCells(brick, pos), 1, pid),
                          !.placed = DictSet(g.placed, pid, <<pid, brick, pos>>),
                          !.next_id = g.next_id + 1],
              raised |-> "", ret |-> pid]

\* place taking the id from the registry (largest key + 1) instead of next_id.
place_lowest_free(g, brick, pos) ==
    IF ~can_place(g, brick, pos)
    THEN [self |-> g, raised |-> "ValueError"]
    ELSE LET pid == 1 + SetMax(DictKeys(g.placed) \cup {0})
         IN  [self |-> [g EXCEPT
                          !.grid = WriteCells(g.grid, AbsCells(brick, pos), 1, pid),
                          !.placed = DictSet(g.placed, pid, <<pid, brick, pos>>),
                          !.next_id = pid + 1],
              raised |-> "", ret |-> pid]

\* place that also drops the cells it fills from every cached origin set.
place_prune_cache(g, brick, pos) ==
    IF ~can_place(g, brick, pos)
    THEN [self |-> g, raised |-> "ValueError"]
    ELSE LET pid == g.next_id
         IN  [self |-> [g EXCEPT
                          !.grid = WriteCells(g.grid, AbsCells(brick, pos), 1, pid),
                          !.placed = DictSet(g.placed, pid, <<pid, brick, pos>>),
                          !.next_id = g.next_id + 1,
                          !.valid_placements =
                              [n \in DOMAIN g.valid_placements |->
                                  g.valid_placements[n] \ Footprint(brick, pos)]],
              raised |-> "", ret |-> pid]

place(g, brick, pos) ==
    IF ~can_place(g, brick, pos)
    THEN [self |-> g, raised |-> "ValueError"]
    ELSE LET pid == g.next_id
         IN  [self |-> [g EXCEPT
                          !.grid = WriteCells(g.grid, AbsCells(brick, pos), 1, pid),
                          !.placed = DictSet(g.placed, pid, <<pid, brick, pos>>),
                          !.next_id = g.next_id + 1],
              raised |-> "", ret |-> pid]

\* numpy indexing: an index in [-n, n) is accepted, a negative one counts
\* from the end; anything else raises IndexError.
NpIndexOk(n, c) == \A k \in 1..3 : -n <= c[k] /\ c[k] < n
NpWrap(n, i) == IF i < 0 THEN i + n ELSE i
NpIndex(n, c) == <<NpWrap(n, c[1]), NpWrap(n, c[2]), NpWrap(n, c[3])>>

\* The cells self.grid[x, y, z] = v reaches for a registered brick: the
\* absolute cells, a negative coordinate counted from the end.
NpCells(n, b, pos) == [i \in 1..Len(b.cubes) |-> NpIndex(n, Add(pos, b.cubes[i]))]

\* remove that drops the registry entry and leaves the cells as they are.
remove_keep_cells(g, placement_id) ==
    IF ~DictHas(g.placed, placement_id)
    THEN [self |-> g, raised |-> "KeyError"]
    ELSE [self |-> [g EXCEPT !.placed = DictPop(g.placed, placement_id)],
          raised |-> ""]

remove(g, placement_id) ==
    IF ~DictHas(g.placed, placement_id)
    THEN [self |-> g, raised |-> "KeyError"]
    ELSE LET e == DictGet(g.placed, placement_id)
         IN  [self |-> [g EXCEPT
                          !.placed = DictPop(g.placed, placement_id),
                          !.grid = WriteCells(g.grid, NpCells(g.size, e[2], e[3]), 1, 0)],
              raised |-> ""]

\* can_move that does not treat the brick's own cells as free.
can_move_strict(g, placement_id, new_pos) ==
    IF ~DictHas(g.placed, placement_id) THEN FALSE
    ELSE can_place(g, DictGet(g.placed, placement_id)[2], new_pos)

\* can_move that treats every occupied cell as free, not only the brick's own.
can_move_bounds_only(g, placement_id, new_pos) ==
    IF ~DictHas(g.placed, placement_id) THEN FALSE
    ELSE \A c \in Footprint(DictGet(g.placed, placement_id)[2], new_pos) : InBounds(g.size, c)

can_move(g, placement_id, new_pos) ==
    IF ~DictHas(g.placed, placement_id) THEN FALSE
    ELSE LET brick == DictGet(g.placed, placement_id)[2]
         IN  \A i \in 1..Len(brick.cubes) :
                LET c == Add(new_pos, brick.cubes[i])
                IN  /\ InBounds(g.size, c)
                    /\ ~(g.grid[c] # 0 /\ g.grid[c] # placement_id)

\* move that writes the new cells first and clears the old cells after.
move_swapped(g, placement_id, new_pos) ==
    IF ~DictHas(g.placed, placement_id)
    THEN [self |-> g, raised |-> "KeyError"]
    ELSE IF ~can_move(g, placement_id, new_pos)
    THEN [self |-> g, raised |-> "ValueError"]
    ELSE LET e       == DictGet(g.placed, placement_id)
             written == WriteCells(g.grid, AbsCells(e[2], new_pos), 1, e[1])
         IN  [self |-> [g EXCEPT
                          !.grid = WriteCells(written, AbsCells(e[2], e[3]), 1, 0),
                          !.placed = DictSet(g.placed, placement_id,
                                             <<e[1], e[2], new_pos>>)],
              raised |-> ""]

\* move that clears the old cells before it checks the new position.
move_clear_first(g, placement_id, new_pos) ==
    IF ~DictHas(g.placed, placement_id)
    THEN [self |-> g, raised |-> "KeyError"]
    ELSE LET e       == DictGet(g.placed, placement_id)
             cleared == WriteCells(g.grid, AbsCells(e[2], e[3]), 1, 0)
         IN  IF ~can_move(g, placement_id, new_pos)
             THEN [self |-> [g EXCEPT !.grid = cleared], raised |-> "ValueError"]
             ELSE [self |-> [g EXCEPT
                               !.grid = WriteCells(cleared, AbsCells(e[2], new_pos), 1, e[1]),
                               !.placed = DictSet(g.placed, placement_id,
                                                  <<e[1], e[2], new_pos>>)],
                   raised |-> ""]

\* move that leaves the registry record at the old position.
move_keep_record(g, placement_id, new_pos) ==
    IF ~DictHas(g.placed, placement_id)
    THEN [self |-> g, raised |-> "KeyError"]
    ELSE IF ~can_move(g, placement_id, new_pos)
    THEN [self |-> g, raised |-> "ValueError"]
    ELSE LET e       == DictGet(g.placed, placement_id)
             cleared == WriteCells(g.grid, AbsCells(e[2], e[3]), 1, 0)
         IN  [self |-> [g EXCEPT
                          !.grid = WriteCells(cleared, AbsCells(e[2], new_pos), 1, e[1])],
              raised |-> ""]

\* move without the registry lookup in front of can_move.
move_unchecked(g, placement_id, new_pos) ==
    IF ~can_move(g, placement_id, new_pos)
    THEN [self |-> g, raised |-> "ValueError"]
    ELSE LET e       == DictGet(g.placed, placement_id)
             cleared == WriteCells(g.grid, AbsCells(e[2], e[3]), 1, 0)
         IN  [self |-> [g EXCEPT
                          !.grid = WriteCells(cleared, AbsCells(e[2], new_pos), 1, e[1]),
                          !.placed = DictSet(g.placed, placement_id,
                                             <<e[1], e[2], new_pos>>)],
              raised |-> ""]

move(g, placement_id, new_pos) ==
    IF ~DictHas(g.placed, placement_id)
    THEN [self |-> g, raised |-> "KeyError"]
    ELSE IF ~can_move(g, placement_id, new_pos)
    THEN [self |-> g, raised |-> "ValueError"]
    ELSE LET e       == DictGet(g.placed, placement_id)
             pid     == e[1]
             brick   == e[2]
             old_pos == e[3]
             cleared == WriteCells(g.grid, NpCells(g.size, brick, old_pos), 1, 0)
         IN  [self |-> [g EXCEPT
                          !.grid = WriteCells(cleared, AbsCells(brick, new_pos), 1, pid),
                          !.placed = DictSet(g.placed, placement_id,
                                             <<pid, brick, new_pos>>)],
              raised |-> ""]

\* A count of the cells that are not 0.
num_left_occupied(g) == Cardinality({c \in Cells(g.size) : g.grid[c] # 0})

num_left(g) == Cardinality({c \in Cells(g.size) : g.grid[c] = 0})

\* self.valid_placements.get(brick.name, set())
CachedPlacements(g, brick) ==
    IF brick.name \in DOMAIN g.valid_placements
    THEN g.valid_placements[brick.name] ELSE {}

\* self.valid_rotations.get(brick.name, set()): the orientation objects,
\* indexed by the (rx, ry, rz) each was built from.
CachedRotations(brick) ==
    IF brick.name \in DOMAIN valid_rotations
    THEN valid_rotations[brick.name] ELSE [r \in {} |-> brick]

\* The first loop of validate_placements and can_not_place_somewhere: the
\* cached origins whose cell is 0. The cell is read with self.grid[x, y, z],
\* which raises IndexError for an origin outside the array.
Empties(g, brick) ==
    LET places == CachedPlacements(g, brick)
    IN  IF \E c \in places : ~NpIndexOk(g.size, c)
        THEN [raised |-> "IndexError"]
        ELSE [raised |-> "",
              ret |-> {c \in places : g.grid[NpIndex(g.size, c)] = 0}]

\* The returned list holds one (b, e) pair for every orientation object b and
\* every empty cached origin e with can_place(b, e), in the iteration order
\* of the two sets; ret is the set of its elements, b given by its index.
validate_placements(g, brick) ==
    LET empties == Empties(g, brick)
    IN  IF empties.raised # "" THEN [raised |-> empties.raised]
        ELSE IF empties.ret = {} THEN [raised |-> "", ret |-> {}]
        ELSE LET rotations == CachedRotations(brick)
             IN  [raised |-> "",
                  ret |-> {q \in (DOMAIN rotations) \X empties.ret :
                              can_place(g, rotations[q[1]], q[2])}]

can_not_place_somewhere(g, brick) ==
    LET empties == Empties(g, brick)
    IN  IF empties.raised # "" THEN [raised |-> empties.raised]
        ELSE IF empties.ret = {} THEN [raised |-> "", ret |-> FALSE]
        ELSE LET rotations == CachedRotations(brick)
             IN  [raised |-> "",
                  ret |-> \E e \in empties.ret :
                             \A r \in DOMAIN rotations : ~can_place(g, rotations[r], e)]

\* ---------------------------------------------------------------- placement search
\* gui_presentation.py: App._find_placements and the same loops in on_find_T.
\* App.bricks is sample_bricks(), the five templates of bricks.

\* for rx in range(4): for ry in range(4): for rz in range(4), in loop order
RotSeq == [k \in 1..64 |-> <<(k - 1) \div 16, ((k - 1) \div 4) % 4, (k - 1) % 4>>]
\* for x in range(size): for y in range(size): for z in range(size)
CellSeq(n) ==
    [k \in 1..(n * n * n) |-> <<(k - 1) \div (n * n), ((k - 1) \div n) % n, (k - 1) % n>>]

\* tuple comparison of Python
CoordLess(a, b) ==
    \/ a[1] < b[1]
    \/ a[1] = b[1] /\ a[2] < b[2]
    \/ a[1] = b[1] /\ a[2] = b[2] /\ a[3] < b[3]

RECURSIVE Insert(_, _)
Insert(s, c) ==
    IF s = <<>> THEN <<c>>
    ELSE IF CoordLess(c, Head(s)) THEN <<c>> \o s
    ELSE <<Head(s)>> \o Insert(Tail(s), c)

RECURSIVE sorted(_)
\* sorted(iterable of coordinates)
sorted(s) == IF s = <<>> THEN <<>> ELSE Insert(sorted(Tail(s)), Head(s))

\* The key without the sort: the absolute cells in cube order.
occ_unsorted(b, pos) == AbsCells(b, pos)

\* occ = tuple(sorted((x + cx, y + cy, z + cz) for cx, cy, cz in b.cubes))
occ(b, pos) == sorted(AbsCells(b, pos))

\* (1,0,0), (-1,0,0), (0,1,0), (0,-1,0), (0,0,1), (0,0,-1)
Offsets == {<<1, 0, 0>>, <<-1, 0, 0>>, <<0, 1, 0>>, <<0, -1, 0>>, <<0, 0, 1>>, <<0, 0, -1>>}

\* touches looking along the positive axes only.
touches_positive(g, b, pos) ==
    \E i \in 1..Len(b.cubes), d \in {<<1, 0, 0>>, <<0, 1, 0>>, <<0, 0, 1>>} :
        LET sc == Add(Add(pos, b.cubes[i]), d)
        IN  InBounds(g.size, sc) /\ g.grid[sc] # 0

\* The touches flag: some cube of b at pos has a face-neighbour that is
\* inside the grid and not 0.
touches(g, b, pos) ==
    \E i \in 1..Len(b.cubes), d \in Offsets :
        LET sc == Add(Add(pos, b.cubes[i]), d)
        IN  InBounds(g.size, sc) /\ g.grid[sc] # 0

\* The can_place test of the loops: for every (rx, ry, rz) in loop order,
\* the orientation b = b0.rotated(rx, ry, rz).normalized() and the origins
\* (x, y, z), in loop order, at which can_place(b, (x, y, z)) is true.
Scan(g, b0) ==
    [k \in 1..Len(RotSeq) |->
        LET rot == RotSeq[k]
            b   == normalized(rotated(b0, rot[1], rot[2], rot[3]))
        IN  [rot |-> rot, b |-> b,
             cands |-> SelectSeq(CellSeq(g.size), LAMBDA pos : can_place(g, b, pos))]]

RECURSIVE FindRots(_, _, _, _, _)
\* The loop body from the k-th orientation on; acc carries the found list and
\* the seen set. fresh are the origins that pass `if occ in seen: continue`
\* (two origins give one orientation two different keys, so a key added for
\* this orientation never rejects a later origin of it); every fresh key is
\* added to seen, and the fresh origins that pass the adjacency test, when
\* the flag is set, are appended to found.
FindRots(g, scan, only_adjacent, k, acc) ==
    IF k > Len(RotSeq) THEN acc
    ELSE LET e     == scan[k]
             fresh == SelectSeq(e.cands, LAMBDA pos : occ(e.b, pos) \notin acc.seen)
         IN  IF fresh = <<>>
             THEN FindRots(g, scan, only_adjacent, k + 1, acc)
             ELSE LET kept == IF only_adjacent
                              THEN SelectSeq(fresh, LAMBDA pos : touches(g, e.b, pos))
                              ELSE fresh
                  IN  FindRots(g, scan, only_adjacent, k + 1,
                               [found |-> acc.found \o
                                            [i \in 1..Len(kept) |->
                                                <<kept[i][1], kept[i][2], kept[i][3],
                                                  e.rot[1], e.rot[2], e.rot[3]>>],
                                seen  |-> acc.seen \cup
                                            {occ(e.b, fresh[i]) : i \in 1..Len(fresh)}])

\* App._find_placements(bid, only_adjacent): the list of (x, y, z, rx, ry, rz).
_find_placements(g, bid, only_adjacent) ==
    IF bid \notin DOMAIN bricks THEN <<>>
    ELSE LET scan == Scan(g, bricks[bid])
         IN  IF scan = <<>> THEN <<>>
             ELSE FindRots(g, scan, only_adjacent, 1, [found |-> <<>>, seen |-> {}]).found

\* The found list of App.on_find_T, whose loops are those of
\* _find_placements with the flag read from only_adjacent_var.
on_find_T(g, only_adjacent_var) == _find_placements(g, "T", only_adjacent_var)

\* ---------------------------------------------------------------- persistence
\* size used by load_from_file when the document has no 'size'.
DefaultSize == 6

\* to_dict that leaves 'next_id' out of the document.
to_dict_no_next_id(g) ==
    [size |-> g.size,
     placed |-> [i \in 1..Len(g.placed) |->
                    [pid |-> g.placed[i].key,
                     name |-> g.placed[i].val[2].name,
                     cubes |-> g.placed[i].val[2].cubes,
                     pos |-> g.placed[i].val[3]]]]

\* CubeGrid.to_dict: the JSON document written by save_to_file.
to_dict(g) ==
    [size |-> g.size,
     next_id |-> g.next_id,
     placed |-> [i \in 1..Len(g.placed) |->
                    [pid |-> g.placed[i].key,
                     name |-> g.placed[i].val[2].name,
                     cubes |-> g.placed[i].val[2].cubes,
                     pos |-> g.placed[i].val[3]]]]

RECURSIVE LoadCells(_, _, _, _, _)
\* for cx, cy, cz in brick.cubes: self.grid[x, y, z] = pid
LoadCells(g, n, cells, i, pid) ==
    IF i > Len(cells) THEN [grid |-> g, raised |-> ""]
    ELSE IF ~NpIndexOk(n, cells[i]) THEN [grid |-> g, raised |-> "IndexError"]
    ELSE LoadCells([g EXCEPT ![NpIndex(n, cells[i])] = pid], n, cells, i + 1, pid)

RECURSIVE LoadItems(_, _, _, _)
\* for item in data.get('placed', []): ...
LoadItems(g, items, i, max_pid) ==
    IF i > Len(items) THEN [self |-> g, raised |-> "", max_pid |-> max_pid]
    ELSE LET item == items[i]
             has(f) == f \in DOMAIN item
         IN  IF ~has("pid") \/ ~has("cubes") \/ ~has("pos")
             THEN [self |-> g, raised |-> "KeyError", max_pid |-> max_pid]
             ELSE IF ~BrickOk(item.cubes)
             THEN [self |-> g, raised |-> "ValueError", max_pid |-> max_pid]
             ELSE LET brick == Brick(item.cubes, IF has("name") THEN item.name ELSE "")
                      w == LoadCells(g.grid, g.size, AbsCells(brick, item.pos), 1, item.pid)
                  IN  IF w.raised # ""
                      THEN [self |-> [g EXCEPT !.grid = w.grid],
                            raised |-> w.raised, max_pid |-> max_pid]
                      ELSE LoadItems(
                              [g EXCEPT !.grid = w.grid,
                                        !.placed = DictSet(g.placed, item.pid,
                                                           <<item.pid, brick, item.pos>>)],
                              items, i + 1,
                              IF item.pid > max_pid THEN item.pid ELSE max_pid)

\* CubeGrid.load_from_file, given the parsed document.
load_from_file(g, data) ==
    LET n     == IF "size" \in DOMAIN data THEN data.size ELSE DefaultSize
        fresh == [g EXCEPT !.size = n, !.grid = Zeros(n), !.placed = <<>>]
        items == IF "placed" \in DOMAIN data THEN data.placed ELSE <<>>
        r     == LoadItems(fresh, items, 1, 0)
    IN  IF r.raised # "" THEN [self |-> r.self, raised |-> r.raised]
        ELSE [self |-> [r.self EXCEPT !.next_id =
                            IF "next_id" \in DOMAIN data THEN data.next_id
                            ELSE r.max_pid + 1],
              raised |-> ""]

\* ---------------------------------------------------------------- the program
\* The CubeGrid object the variables hold.
Self ==
    [size |-> size, grid |-> grid, next_id |-> next_id, placed |-> placed,
     valid_placements |-> valid_placements]

\* The fields a snapshot is meant to carry.
Core(g) == [size |-> g.size, grid |-> g.grid, next_id |-> g.next_id, placed |-> g.placed]

Assign(g) ==
    /\ size' = g.size
    /\ grid' = g.grid
    /\ next_id' = g.next_id
    /\ placed' = g.placed
    /\ valid_placements' = g.valid_placements

NoFiles == [p \in {} |-> 0]
Put(f, path, v) == [p \in (DOMAIN f) \cup {path} |-> IF p = path THEN v ELSE f[p]]

\* json.dump(self.to_dict(), f) into the file at path. The document holds
\* integers, strings and lists only, which json.load gives back unchanged.
save_to_file(g, fs, path) == Put(fs, path, to_dict(g))

\* The variables hold a freshly constructed CubeGrid(n).
Constructed(n) ==
    LET g == CubeGrid(n)
    IN  /\ size = g.size
        /\ grid = g.grid
        /\ next_id = g.next_id
        /\ placed = g.placed
        /\ valid_placements = g.valid_placements

\* ---------------------------------------------------------------- inputs
\* The callers place template.rotated(rx, ry, rz).normalized(); the bricks
\* handed to place here are these orientations of the templates.
PlaceInputs ==
    {<<"T", <<0, 0, 1>>>>, <<"O", <<0, 0, 0>>>>, <<"S3D", <<0, 0, 0>>>>}
Orientation(name, r) == normalized(rotated(bricks[name], r[1], r[2], r[3]))
PlaceBricks == {Orientation(q[1], q[2]) : q \in PlaceInputs}
\* Positions: every cell of the grid and one step below it on each axis (the
\* bricks reach past the upper faces by themselves).
Positions == (-1..(size - 1)) \X (-1..(size - 1)) \X (-1..(size - 1))
\* Placement ids a caller may name: 0 and MaxId + 1 are never in the registry.
Ids == 0..(MaxId + 1)

\* ---------------------------------------------------------------- actions
Place(b, p) ==
    /\ next_id <= MaxId
    /\ LET r == place(Self, b, p)
       IN  /\ Assign(r.self)
           /\ issued' = IF r.raised = "" THEN issued \cup {r.ret} ELSE issued
    /\ UNCHANGED <<files, saved>>

Remove(id) ==
    /\ Assign(remove(Self, id).self)
    /\ UNCHANGED <<files, saved, issued>>

Move(id, p) ==
    /\ Assign(move(Self, id, p).self)
    /\ UNCHANGED <<files, saved, issued>>

Clear ==
    /\ Assign(clear(Self).self)
    /\ issued' = {}
    /\ UNCHANGED <<files, saved>>

PlaceAny == \E b \in PlaceBricks, p \in Positions : Place(b, p)
RemoveAny == \E id \in Ids : Remove(id)
MoveAny == \E id \in Ids, p \in Positions : Move(id, p)

Init ==
    /\ \E n \in Sizes : Constructed(n)
    /\ files = NoFiles
    /\ saved = NoFiles
    /\ issued = {}

Next == PlaceAny \/ RemoveAny \/ MoveAny \/ Clear

Spec == Init /\ [][Next]_vars

\* The same program without clear (and without load).
NextNoClear == PlaceAny \/ RemoveAny \/ MoveAny

SpecNoClear == Init /\ [][NextNoClear]_vars

\* ---------------------------------------------------------------- save and load
\* The program with its Save... and Load... commands. The file system starts
\* with one snapshot saved by a run whose grid had another size: two O bricks,
\* the first of them removed and placed again.
SavePaths == {"a.json"}
ForeignPath == "other.json"
ForeignGrid(n) ==
    LET m  == CHOOSE k \in Sizes : k # n
        g1 == place(CubeGrid(m), bricks["O"], <<0, 0, 0>>).self
        g2 == place(g1, bricks["O"], <<0, 0, 1>>).self
        g3 == remove(g2, 1).self
    IN  place(g3, bricks["O"], <<0, 0, 0>>).self

\* The calls made between saves and loads.
IOBricks == {bricks["O"], bricks["T"]}
IOPositions == {<<0, 0, 0>>, <<1, 0, 0>>, <<0, 0, 1>>, <<0, 1, 1>>}

Save(path) ==
    /\ files' = save_to_file(Self, files, path)
    /\ saved' = Put(saved, path, Core(Self))
    /\ UNCHANGED <<size, grid, next_id, placed, valid_placements, issued>>

\* open(path) of a file that exists; the document is parsed and loaded.
Load(path) ==
    /\ path \in DOMAIN files
    /\ Assign(load_from_file(Self, files[path]).self)
    /\ issued' = {}
    /\ UNCHANGED <<files, saved>>

PlaceIO == \E b \in IOBricks, p \in IOPositions : Place(b, p)
MoveIO == \E id \in Ids, p \in IOPositions : Move(id, p)
SaveAny == \E path \in SavePaths : Save(path)
LoadAny == \E path \in SavePaths \cup {ForeignPath} : Load(path)

InitIO ==
    /\ \E n \in Sizes :
          /\ Constructed(n)
          /\ files = Put(NoFiles, ForeignPath, to_dict(ForeignGrid(n)))
          /\ saved = Put(NoFiles, ForeignPath, Core(ForeignGrid(n)))
    /\ issued = {}

NextIO == PlaceIO \/ RemoveAny \/ MoveIO \/ Clear \/ SaveAny \/ LoadAny

SpecIO == InitIO /\ [][NextIO]_vars

\* ---------------------------------------------------------------- hand-made snapshots
\* The program with its Load... command pointed at snapshot files that were
\* written by hand. Every file declares the size DocSize and starts with one
\* well-formed record (an O with id 1 at the origin); the second record is
\* the faulty one.
DocSize == 2
GoodItem == [pid |-> 1, name |-> "O", cubes |-> bricks["O"].cubes, pos |-> <<0, 0, 0>>]
\* item without the field f: item[f] raises KeyError
Without(item, f) == [k \in (DOMAIN item) \ {f} |-> item[k]]
SecondItem == [pid |-> 2, name |-> "O", cubes |-> bricks["O"].cubes, pos |-> <<0, 0, 1>>]
Doc(item) == [size |-> DocSize, next_id |-> 3, placed |-> <<GoodItem, item>>]
BadDocs ==
    [path \in {"nopid.json", "nocubes.json", "nopos.json", "short.json", "outside.json"} |->
        CASE path = "nopid.json"   -> Doc(Without(SecondItem, "pid"))
          [] path = "nocubes.json" -> Doc(Without(SecondItem, "cubes"))
          [] path = "nopos.json"   -> Doc(Without(SecondItem, "pos"))
          \* three cubes: Brick(cubes) raises ValueError
          [] path = "short.json"   -> Doc([SecondItem EXCEPT !.cubes = SubSeq(@, 1, 3)])
          \* a T laid along x from (0,0,1): its third cell has x = 2 = size
          [] OTHER                 -> Doc([SecondItem EXCEPT !.name = "T",
                                                              !.cubes = bricks["T"].cubes])]

LoadBad == \E path \in DOMAIN BadDocs : Load(path)

InitBad ==
    /\ \E n \in Sizes : Constructed(n)
    /\ files = BadDocs
    /\ saved = NoFiles
    /\ issued = {}

NextBad == PlaceIO \/ RemoveAny \/ MoveIO \/ Clear \/ LoadBad

SpecBad == InitBad /\ [][NextBad]_vars

\* ---------------------------------------------------------------- unchecked snapshots
\* The program with its Load... command pointed at hand-written snapshot
\* files that load_from_file reads to the end without raising. Every file
\* declares the size DocSize and starts with the O brick of GoodItem.
LooseDocs ==
    [path \in {"overlap.json", "wrapped.json", "twice.json", "lownext.json"} |->
        \* a second O on the cells of the first
        CASE path = "overlap.json" -> Doc([SecondItem EXCEPT !.pos = <<0, 0, 0>>])
          \* a second O at z = -1, which numpy counts from the end
          [] path = "wrapped.json" -> Doc([SecondItem EXCEPT !.pos = <<0, 0, -1>>])
          \* two records with the pid 1
          [] path = "twice.json"   -> Doc([SecondItem EXCEPT !.pid = 1])
          \* two proper records and 'next_id': 1
          [] OTHER                 -> [Doc(SecondItem) EXCEPT !.next_id = 1]]

LoadLoose == \E path \in DOMAIN LooseDocs : Load(path)

InitLoose ==
    /\ \E n \in Sizes : Constructed(n)
    /\ files = LooseDocs
    /\ saved = NoFiles
    /\ issued = {}

NextLoose == PlaceIO \/ RemoveAny \/ MoveIO \/ Clear \/ LoadLoose

SpecLoose == InitLoose /\ [][NextLoose]_vars

\* ---------------------------------------------------------------- search commands
\* The program driven through the buttons of the window: Demo, Add random
\* adjacent T, Remove and Reset.

\* App.on_demo: clear, then the three places inside one try block; the first
\* call that raises ends the block and the bricks placed before it stay.
on_demo(g) ==
    LET g0 == clear(g).self
        r1 == place(g0, bricks["O"], <<0, 0, 0>>)
        r2 == place(r1.self, Orientation("I", <<0, 0, 1>>), <<0, 2, 0>>)
        r3 == place(r2.self, Orientation("L", <<0, 1, 0>>), <<3, 0, 0>>)
    IN  IF r1.raised # "" THEN g0
        ELSE IF r2.raised # "" THEN r1.self
        ELSE IF r3.raised # "" THEN r2.self
        ELSE r3.self

Demo ==
    \E g \in {on_demo(Self)} :
        /\ Assign(g)
        /\ issued' = DictKeys(g.placed)
        /\ UNCHANGED <<files, saved>>

\* App.on_add_random_adj_T: a search with only_adjacent=True, nothing happens
\* on an empty result, else random.choice draws one result and it is placed.
Choices(s) == {s[i] : i \in 1..Len(s)}
AddRandomAdjT ==
    /\ next_id <= MaxId
    /\ \E c \in Choices(_find_placements(Self, "T", TRUE)) :
          \E r \in {place(Self, Orientation("T", <<c[4], c[5], c[6]>>),
                          <<c[1], c[2], c[3]>>)} :
              /\ Assign(r.self)
              /\ issued' = IF r.raised = "" THEN issued \cup {r.ret} ELSE issued
    /\ UNCHANGED <<files, saved>>

\* App.on_place with the O template, no rotation, at one of two origins.
FindPositions == {<<0, 0, 0>>, <<1, 1, 1>>}
PlaceFind == \E p \in FindPositions : Place(bricks["O"], p)

\* The attributes of a CubeGrid object: the fields set by __init__ and the
\* methods of the class.
CubeGridAttrs ==
    {"size", "grid", "next_id", "placed", "bricks", "valid_placements", "valid_rotations",
     "__init__", "clear", "can_place", "place", "remove", "to_dict", "save_to_file",
     "load_from_file", "can_move", "move", "num_left", "validate_placements",
     "can_not_place_somewhere", "show"}
\* self.grid.<name>: AttributeError for a name the object does not have.
GetAttr(name) == IF name \in CubeGridAttrs THEN "" ELSE "AttributeError"

\* App.on_check_T_between: the call self.grid.can_place_somewhere(...) starts
\* with the attribute lookup; when it raises, the handler ends with neither
\* dialog shown.
on_check_T_between(g) ==
    IF "T" \notin DOMAIN bricks
    THEN [raised |-> "", shown |-> "No 'T' brick defined"]
    ELSE [raised |-> GetAttr("can_place_somewhere"), shown |-> ""]

NextFind == Demo \/ PlaceFind \/ AddRandomAdjT \/ RemoveAny \/ Clear

SpecFind == Init /\ [][NextFind]_vars

\* ---------------------------------------------------------------- command line
\* presentation.py: repl(), the `add <brick_id> x y z rx ry rz` and `reset`
\* commands. The six numbers are parsed with int(), so the turn counts can
\* be negative or above 3.
Turns == -4..4
ReplNames == {"S3D"}
ReplPositions == {<<0, 0, 0>>}

\* add: rotate, normalize, and place when can_place says the brick fits.
ReplAdd ==
    \E bid \in ReplNames, pos \in ReplPositions, rx \in Turns, ry \in Turns, rz \in Turns :
        \E b \in {normalized(rotated(bricks[bid], rx, ry, rz))} :
            /\ next_id <= MaxId
            /\ can_place(Self, b, pos)
            /\ Place(b, pos)

\* reset
ReplReset == Clear

NextRepl == ReplAdd \/ ReplReset

SpecRepl == Init /\ [][NextRepl]_vars

\* ---------------------------------------------------------------- properties
\* Bricks handed to the calls the properties below make: the placed
\* orientations and the five templates as defined.
ProbeBricks == PlaceBricks \cup {bricks[n] : n \in Names}
Keys == DictKeys(placed)
BrickOf(id) == DictGet(placed, id)[2]
PosOf(id) == DictGet(placed, id)[3]
NonZero(g) == {c \in DOMAIN g : g[c] # 0}
\* Two registries agree on every key other than id.
SameOthers(d1, d2, id) ==
    /\ DictKeys(d1) \ {id} = DictKeys(d2) \ {id}
    /\ \A k \in DictKeys(d1) \ {id} : DictGet(d1, k) = DictGet(d2, k)
\* Some target cell is out of bounds or already non-empty.
Blocked(b, p) ==
    \E i \in 1..Len(b.cubes) :
        LET c == Add(p, b.cubes[i]) IN ~InBounds(size, c) \/ grid[c] # 0

\* C1: a cell holds id P > 0 iff P is a key of the registry and the cell is
\* pos(P) + a cube offset of brick(P); the footprints of distinct placements
\* are disjoint and every footprint cell lies in [0, size) on each axis.
C1_GridMatchesRegistry ==
    /\ DOMAIN grid = Cells(size)
    /\ \A c \in Cells(size) :
          /\ grid[c] >= 0
          /\ grid[c] # 0 =>
                /\ grid[c] \in Keys
                /\ c \in Footprint(BrickOf(grid[c]), PosOf(grid[c]))
    /\ \A id \in Keys :
          /\ DictGet(placed, id)[1] = id
          /\ id > 0
          /\ \A c \in Footprint(BrickOf(id), PosOf(id)) :
                InBounds(size, c) /\ grid[c] = id
    /\ \A i, j \in Keys :
          i # j => Footprint(BrickOf(i), PosOf(i)) \cap Footprint(BrickOf(j), PosOf(j)) = {}
    /\ \A i, j \in 1..Len(placed) : placed[i].key = placed[j].key => i = j

\* Two placements are registered away from the origin corner and own 8 cells.
C1_Witness ==
    /\ Len(placed) = 2
    /\ Cardinality(NonZero(grid)) = 8
    /\ \E id \in Keys : PosOf(id) # <<0, 0, 0>>

\* The scenario on a grid of size 6: O placed at (0,0,0) gets id 1 and fills
\* its four cells; the unrotated I at (0,0,0) is then refused.
C2_Scenario ==
    LET g1 == place(CubeGrid(DefaultSize), bricks["O"], <<0, 0, 0>>)
        r  == place(g1.self, bricks["I"], <<0, 0, 0>>)
    IN  /\ g1.raised = "" /\ g1.ret = 1
        /\ NonZero(g1.self.grid) = {<<0,0,0>>, <<1,0,0>>, <<0,1,0>>, <<1,1,0>>}
        /\ r.raised = "ValueError"
        /\ Len(r.self.placed) = 1
        /\ r.self = g1.self

\* C2: when some target cell is out of bounds or occupied, can_place is false,
\* and whenever can_place is false place raises ValueError leaving grid,
\* registry, next_id (and every other field) as they were; on a size-6 grid
\* holding O at (0,0,0), placing the unrotated I at (0,0,0) fails and the
\* registry keeps exactly one entry.
C2_FailedPlaceChangesNothing ==
    /\ LET me == Self
       IN  \A b \in ProbeBricks, p \in Positions :
              (Blocked(b, p) \/ ~can_place(me, b, p)) =>
                 LET r == place(me, b, p)
                 IN  /\ ~can_place(me, b, p)
                     /\ r.raised = "ValueError"
                     /\ r.self = me
    /\ C2_Scenario

\* A brick is registered and a place call is blocked by it alone (every target
\* cell is inside the grid, one is occupied).
C2_Witness ==
    /\ Len(placed) >= 1
    /\ \E b \in ProbeBricks, p \in Positions :
          /\ \A c \in Footprint(b, p) : InBounds(size, c)
          /\ \E c \in Footprint(b, p) : grid[c] # 0
          /\ place(Self, b, p).raised = "ValueError"

\* C3: move of a registered id to a position where can_move is false raises
\* an error and leaves grid, registry and next_id unchanged; no cell of the
\* old footprint is cleared.
C3_FailedMoveChangesNothing ==
    LET me == Self
    IN  \A id \in Keys, p \in Positions :
           ~can_move(me, id, p) =>
              LET r == move(me, id, p)
              IN  /\ r.raised = "ValueError"
                  /\ r.self = me
                  /\ \A c \in Footprint(BrickOf(id), PosOf(id)) : r.self.grid[c] = id

\* A registered brick is asked to move onto another brick's cells.
C3_Witness ==
    \E id \in Keys, p \in Positions :
        /\ \A c \in Footprint(BrickOf(id), p) : InBounds(size, c)
        /\ \E c \in Footprint(BrickOf(id), p) : grid[c] # 0 /\ grid[c] # id
        /\ move(Self, id, p).raised = "ValueError"

\* The occupancy array a move of id to p is to leave.
MovedGrid(id, p) ==
    LET new == Footprint(BrickOf(id), p)
        old == Footprint(BrickOf(id), PosOf(id))
    IN  [c \in Cells(size) |->
            IF c \in new THEN id ELSE IF c \in old THEN 0 ELSE grid[c]]

\* C4: a successful move leaves exactly the cells newPos + offset holding id,
\* every old cell outside the new footprint 0 (also when the footprints
\* overlap), the registry entry of id with the same brick and the position
\* newPos, and everything else (other cells, other entries, the order of the
\* registry, next_id, size, caches) unchanged.
C4_MoveEffect ==
    \A id \in Keys, p \in Positions :
        can_move(Self, id, p) =>
           LET r == move(Self, id, p)
           IN  /\ r.raised = ""
               /\ r.self.grid = MovedGrid(id, p)
               /\ DictGet(r.self.placed, id) = <<id, BrickOf(id), p>>
               /\ SameOthers(r.self.placed, placed, id)
               /\ [i \in 1..Len(r.self.placed) |-> r.self.placed[i].key]
                     = [i \in 1..Len(placed) |-> placed[i].key]
               /\ r.self.next_id = next_id
               /\ r.self.size = size
               /\ r.self.valid_placements = valid_placements

\* A brick can move to a new position whose footprint overlaps its old one,
\* next to another registered brick.
C4_Witness ==
    /\ Len(placed) = 2
    /\ \E id \in Keys, p \in Positions :
          /\ p # PosOf(id)
          /\ can_move(Self, id, p)
          /\ Footprint(BrickOf(id), p) \cap Footprint(BrickOf(id), PosOf(id)) # {}
          /\ move(Self, id, p).self.grid # grid

\* C5: a successful place returns the old next_id, writes it into exactly the
\* cells pos + offset, appends the registry entry id -> (id, brick, pos),
\* increases next_id by 1 and changes nothing else.
C5_PlaceEffect ==
    \A b \in ProbeBricks, p \in Positions :
        ~Blocked(b, p) =>
           LET r == place(Self, b, p)
           IN  /\ r.raised = ""
               /\ r.ret = next_id
               /\ r.self.grid =
                     LET new == Footprint(b, p)
                     IN  [c \in Cells(size) |-> IF c \in new THEN next_id ELSE grid[c]]
               /\ DictGet(r.self.placed, r.ret) = <<next_id, b, p>>
               /\ SameOthers(r.self.placed, placed, r.ret)
               /\ r.self.next_id = next_id + 1
               /\ r.self.size = size
               /\ r.self.valid_placements = valid_placements

\* A brick is registered and another one fits beside it.
C5_Witness ==
    /\ Len(placed) >= 1
    /\ \E b \in ProbeBricks, p \in Positions :
          ~Blocked(b, p) /\ place(Self, b, p).ret = next_id

\* next_id is above every registered and every returned id, and a place made
\* now returns none of the ids returned before.
C6_State ==
    /\ \A k \in Keys : k < next_id
    /\ \A k \in issued : k < next_id
    /\ \A b \in ProbeBricks, p \in Positions :
          LET r == place(Self, b, p)
          IN  r.raised = "" => r.ret \notin issued

\* next_id does not decrease and an id newly returned is above the earlier ones.
C6_Step ==
    /\ next_id' >= next_id
    /\ \A k \in issued' \ issued : \A j \in issued : k > j

\* C6: without clear and load, the ids place returns strictly increase:
\* next_id never decreases, a place that succeeds returns an id above every id
\* returned so far, next_id is above every registered id, and no id returned
\* before (freed by remove or not) is returned by a place made now.
C6_IdsNeverReused == [](C6_State) /\ [][C6_Step]_vars

\* Id 1 was returned and has been removed, id 2 is registered, and a brick
\* can be placed now.
C6_Witness ==
    /\ 1 \in issued /\ 1 \notin Keys /\ 2 \in Keys
    /\ \E b \in ProbeBricks, p \in Positions : place(Self, b, p).raised = ""

\* C7: place followed by remove of the returned id restores the occupancy
\* array and the registry; only next_id differs, being one larger.
C7_PlaceThenRemove ==
    \A b \in ProbeBricks, p \in Positions :
        can_place(Self, b, p) =>
           LET r1 == place(Self, b, p)
               r2 == remove(r1.self, r1.ret)
           IN  /\ r1.raised = "" /\ r2.raised = ""
               /\ r2.self.grid = grid
               /\ r2.self.placed = placed
               /\ r2.self.next_id = next_id + 1
               /\ r2.self = [Self EXCEPT !.next_id = next_id + 1]

\* A brick is registered, another fits, and placing it changes the grid.
C7_Witness ==
    /\ Len(placed) >= 1
    /\ \E b \in ProbeBricks, p \in Positions :
          can_place(Self, b, p) /\ place(Self, b, p).self.grid # grid

\* C8: for every registered id, can_move to its current position is true and
\* that move succeeds and changes nothing.
C8_NoOpMove ==
    \A id \in Keys :
        /\ can_move(Self, id, PosOf(id))
        /\ move(Self, id, PosOf(id)).raised = ""
        /\ move(Self, id, PosOf(id)).self = Self

\* Two bricks are registered, so the no-op move is made beside another brick.
C8_Witness ==
    /\ Len(placed) = 2
    /\ \A id \in Keys : move(Self, id, PosOf(id)).raised = ""

\* C9: for an id outside the registry, can_move is false at every position
\* and remove and move raise KeyError, all without changing any field; for a
\* registered id, remove zeroes exactly its footprint and deletes exactly its
\* registry entry.
C9_UnknownIdAndRemove ==
    /\ LET me == Self
       IN  \A id \in Ids \ Keys :
              /\ remove(me, id).raised = "KeyError"
              /\ remove(me, id).self = me
              /\ \A p \in Positions :
                    LET r == move(me, id, p)
                    IN  /\ ~can_move(me, id, p)
                        /\ r.raised = "KeyError"
                        /\ r.self = me
    /\ \A id \in Keys :
          LET r == remove(Self, id)
          IN  /\ r.raised = ""
              /\ r.self.grid =
                    LET old == Footprint(BrickOf(id), PosOf(id))
                    IN  [c \in Cells(size) |-> IF c \in old THEN 0 ELSE grid[c]]
              /\ r.self.placed = SelectSeq(placed, LAMBDA e : e.key # id)
              /\ r.self = [Self EXCEPT !.grid = r.self.grid, !.placed = r.self.placed]

\* The three kinds of absent id exist at once (0 was never allocated, one id
\* was returned and removed) beside a registered one.
C9_Witness ==
    /\ Len(placed) >= 1
    /\ \E id \in issued : id \notin Keys /\ remove(Self, id).raised = "KeyError"
    /\ \E id \in Keys : remove(Self, id).raised = ""

\* C10: loading a snapshot that save_to_file wrote, into a grid in any state,
\* succeeds and yields the size, occupancy array, registry (ids, names, cubes
\* in order, positions, in the saved order) and next_id the saving grid had;
\* nothing of the loading grid's placements survives.
C10_SaveThenLoad ==
    \A path \in DOMAIN files :
        LET r == load_from_file(Self, files[path])
        IN  /\ r.raised = ""
            /\ Core(r.self) = saved[path]
            /\ r.self.grid = saved[path].grid
            /\ r.self.placed = saved[path].placed
            /\ r.self.next_id = saved[path].next_id

\* A snapshot saved after a removal (next_id is above the largest registered
\* id plus one) was written by this grid; the grid has since taken another
\* size and holds other placements.
C10_Witness ==
    \E path \in SavePaths \cap DOMAIN files :
        /\ saved[path].placed # <<>>
        /\ \A k \in DictKeys(saved[path].placed) : k + 1 < saved[path].next_id
        /\ saved[path].size # size
        /\ Len(placed) >= 1
        /\ load_from_file(Self, files[path]).self.grid # grid

\* C11: a load that fails (a record without pid, cubes or pos, a record whose
\* cubes list has not exactly 4 entries, a record with a cell outside the
\* grid) raises an error and leaves size, occupancy array, registry and
\* next_id as they were before the load.
C11_FailedLoadChangesNothing ==
    \A path \in DOMAIN files :
        LET r == load_from_file(Self, files[path])
        IN  /\ r.raised # ""
            /\ Core(r.self) = Core(Self)

\* C12: clear, called in any reachable state, sets every cell to 0, empties
\* the registry and sets next_id to 1, so that the next place that succeeds
\* returns 1; the size and the placement caches are unchanged (the templates
\* and the orientation cache are never assigned after construction).
C12_ClearResets ==
    LET r == clear(Self)
    IN  /\ r.raised = ""
        /\ r.self.grid = Zeros(size)
        /\ r.self.placed = <<>>
        /\ r.self.next_id = 1
        /\ r.self.size = size
        /\ r.self.valid_placements = valid_placements
        /\ \A b \in ProbeBricks, p \in Positions :
              LET q == place(r.self, b, p)
              IN  /\ q.raised = "" <=> \A c \in Footprint(b, p) : InBounds(size, c)
                  /\ q.raised = "" => q.ret = 1

\* Two bricks are registered (ids 1 and 2, next_id 3), so clear has cells,
\* entries and a counter to reset.
C12_Witness ==
    /\ Len(placed) = 2
    /\ next_id = 3
    /\ Cardinality(NonZero(grid)) = 8
    /\ clear(Self).self.next_id = 1
    /\ clear(Self).self.grid # grid

\* C13: in any state where the grid is completely filled (num_left() = 0),
\* can_not_place_somewhere(T) returns true.
C13_FullGridCannotPlace ==
    num_left(Self) = 0 =>
        LET r == can_not_place_somewhere(Self, bricks["T"])
        IN  r.raised = "" /\ r.ret = TRUE

\* C14: on an empty grid (freshly constructed or after clear)
\* can_not_place_somewhere(b) returns false for T and for every other default
\* template b, every cached origin admitting at least one cached orientation.
C14_EmptyGridCanPlace ==
    NonZero(grid) = {} =>
        \A name \in Names :
            LET r == can_not_place_somewhere(Self, bricks[name])
            IN  /\ r.raised = ""
                /\ r.ret = FALSE
                /\ \A e \in valid_placements[name] :
                      \E o \in Rots : can_place(Self, valid_rotations[name][o], e)

\* The cubes of a brick as an unordered collection.
CubeSet(b) == {b.cubes[i] : i \in 1..Len(b.cubes)}

\* C15: for every default template (every name the grid keeps caches for),
\* valid_rotations[name] holds no two entries
\* with equal normalized cube sets: one entry per distinct orientation among
\* the 64 (rx, ry, rz) combinations, at most 24.
C15_RotationsDeduplicated ==
    \A name \in DOMAIN valid_placements :
        LET entries == DOMAIN valid_rotations[name]
        IN  /\ \A r1, r2 \in entries :
                  r1 # r2 => CubeSet(valid_rotations[name][r1])
                               # CubeSet(valid_rotations[name][r2])
            /\ Cardinality(entries)
                  = Cardinality({CubeSet(valid_rotations[name][r]) : r \in entries})
            /\ Cardinality(entries) <= 24

\* C16: validate_placements(brick) returns exactly the pairs (orientation,
\* origin) with origin in the cached valid_placements of the brick's name,
\* the origin cell 0, orientation in the cached valid_rotations and can_place
\* true on the live grid; every returned pair passes can_place, and each
\* distinct (orientation shape, origin) pair is returned once.
C16_ValidatePlacements ==
    \A name \in Names :
        LET rotations == valid_rotations[name]
            r == validate_placements(Self, bricks[name])
        IN  /\ r.raised = ""
            /\ \A q \in r.ret :
                  /\ q[2] \in valid_placements[name]
                  /\ grid[q[2]] = 0
                  /\ can_place(Self, rotations[q[1]], q[2])
            /\ \A e \in valid_placements[name], o \in Rots :
                  (grid[e] = 0 /\ can_place(Self, rotations[o], e)) =>
                     \E q \in r.ret :
                        q[2] = e /\ CubeSet(rotations[q[1]]) = CubeSet(rotations[o])
            /\ Cardinality(r.ret)
                  = Cardinality({<<CubeSet(rotations[q[1]]), q[2]>> : q \in r.ret})

\* The absolute cells of a search result (x, y, z, rx, ry, rz) for a template.
ResultCells(name, res) ==
    Footprint(Orientation(name, <<res[4], res[5], res[6]>>), <<res[1], res[2], res[3]>>)
\* The shapes a template can take: the cube sets of its 64 orientations.
Shapes ==
    [name \in Names |-> {CubeSet(valid_rotations[name][r]) : r \in Rots}]
\* Every cell set the template can occupy on the live grid: a shape moved to
\* an origin where all its cells are inside the grid and 0.
PlaceableSets(name) ==
    UNION {{{Add(p, c) : c \in sh} :
               p \in {p \in Cells(size) :
                         \A c \in sh : InBounds(size, Add(p, c)) /\ grid[Add(p, c)] = 0}} :
           sh \in Shapes[name]}
\* The cells next to a cell set, inside the grid.
Neighbours(cs) == {c \in {Add(d, o) : d \in cs, o \in Offsets} : InBounds(size, c)}
ResultSets(name, found) == {ResultCells(name, found[i]) : i \in 1..Len(found)}

\* C17: the search (_find_placements, and on_find_T for T) never reports two
\* results occupying the same absolute set of cells, in any grid state and for
\* any template, with the adjacency filter on or off; with the filter off the
\* reported cell sets are exactly the cell sets some orientation and origin
\* can occupy, each reported once.
C17_SearchDedup ==
    \A name \in Names :
        LET all == _find_placements(Self, name, FALSE)
            adj == _find_placements(Self, name, TRUE)
        IN  /\ Cardinality(ResultSets(name, all)) = Len(all)
            /\ Cardinality(ResultSets(name, adj)) = Len(adj)
            /\ ResultSets(name, all) = PlaceableSets(name)
            /\ name = "T" => /\ on_find_T(Self, FALSE) = all
                             /\ on_find_T(Self, TRUE) = adj

\* A 3x3x3 grid holding one brick: T has placeable cell sets, each of them
\* reachable through several of the 64 orientations.
C17_Witness ==
    /\ size = 3
    /\ Len(placed) = 1
    /\ Len(_find_placements(Self, "T", FALSE)) > 1
    /\ Len(_find_placements(Self, "T", FALSE)) < Cardinality(
          {q \in Rots \X Cells(size) : can_place(Self, valid_rotations["T"][q[1]], q[2])})

\* C18: with only_adjacent set the search reports a placeable cell set if and
\* only if one of its cells has a face-neighbour inside the grid that is not
\* 0; every reported placement passes can_place, and on an empty grid the
\* only-adjacent search reports nothing.
C18_OnlyAdjacent ==
    \A name \in Names :
        LET adj == _find_placements(Self, name, TRUE)
        IN  /\ ResultSets(name, adj)
                  = {cs \in PlaceableSets(name) : \E c \in Neighbours(cs) : grid[c] # 0}
            /\ \A i \in 1..Len(adj) :
                  can_place(Self, Orientation(name, <<adj[i][4], adj[i][5], adj[i][6]>>),
                            <<adj[i][1], adj[i][2], adj[i][3]>>)
            /\ (\A c \in DOMAIN grid : grid[c] = 0) => adj = <<>>

\* A 3x3x3 grid holding one brick, where some placeable T touches the brick
\* only from its far side (no occupied cell in a positive direction) and
\* another placeable T touches nothing.
C18_Witness ==
    /\ size = 3
    /\ Len(placed) = 1
    /\ \E cs \in ResultSets("T", _find_placements(Self, "T", TRUE)) :
          \A c \in cs, d \in {<<1, 0, 0>>, <<0, 1, 0>>, <<0, 0, 1>>} :
              InBounds(size, Add(c, d)) => grid[Add(c, d)] = 0
    /\ Len(_find_placements(Self, "T", TRUE)) < Len(_find_placements(Self, "T", FALSE))

\* Some placeable T cell set has occupied face-neighbours inside the grid
\* that belong to at least two placement ids.
BetweenExists ==
    \E cs \in PlaceableSets("T") :
        Cardinality({grid[c] : c \in Neighbours(cs)} \ {0}) >= 2

\* C19: the "between" query of on_check_T_between answers, and answers
\* "possible" exactly when some placeable T orientation and origin has
\* occupied face-neighbours inside the grid belonging to at least 2 distinct
\* placement ids.
C19_BetweenQuery ==
    LET r == on_check_T_between(Self)
    IN  /\ r.raised = ""
        /\ (r.shown = "It's possible to place a T between existing bricks.") <=> BetweenExists

\* C20: the placement caches follow the grid size: in every state, also
\* after a load that changed the size, valid_placements[name] is the set of
\* origins at which some orientation of the template fits in an empty grid of
\* the current size.
C20_CachesFollowSize ==
    \A name \in DOMAIN valid_placements :
        valid_placements[name]
            = {p \in Cells(size) :
                  \E r \in Rots : can_place(CubeGrid(size), valid_rotations[name][r], p)}

\* C21: for every default template and every (rx, ry, rz) in [0,4)^3,
\* rotated(rx, ry, rz).normalized() has exactly 4 cubes, pairwise distinct,
\* with minimum 0 on each axis and the template's name; normalized() of an
\* unrotated template returns the template's own cubes. The same holds for
\* every brick the add command has put into the registry.
C21_NormalizedOrientation ==
    /\ \A name \in DOMAIN valid_placements, r \in Rots :
          LET b == normalized(rotated(bricks[name], r[1], r[2], r[3]))
          IN  /\ Len(b.cubes) = 4
              /\ Cardinality(CubeSet(b)) = 4
              /\ \A k \in 1..3 : SetMin({c[k] : c \in CubeSet(b)}) = 0
              /\ b.name = name
    /\ \A name \in DOMAIN valid_placements :
          normalized(bricks[name]).cubes = bricks[name].cubes
    /\ \A id \in Keys :
          /\ Cardinality(CubeSet(BrickOf(id))) = 4
          /\ \A k \in 1..3 : SetMin({c[k] : c \in CubeSet(BrickOf(id))}) = 0
          /\ BrickOf(id).name \in ReplNames

\* The registry holds a brick that add made with a negative turn count and
\* whose rotation had a negative coordinate before normalized() shifted it.
C21_Witness ==
    \E id \in Keys, name \in ReplNames, rx \in Turns, ry \in Turns, rz \in Turns :
        /\ rx < 0
        /\ BrickOf(id) = normalized(rotated(bricks[name], rx, ry, rz))
        /\ \E i \in 1..4, k \in 1..3 : rotated(bricks[name], rx, ry, rz).cubes[i][k] < 0
        /\ BrickOf(id).cubes # bricks[name].cubes

\* k quarter turns about one axis, written out for k = 0..3 from the steps
\* (x,y,z)->(x,-z,y), (x,y,z)->(z,y,-x) and (x,y,z)->(-y,x,z).
TurnX(k, p) ==
    CASE k = 0 -> p
      [] k = 1 -> <<p[1], -p[3], p[2]>>
      [] k = 2 -> <<p[1], -p[2], -p[3]>>
      [] k = 3 -> <<p[1], p[3], -p[2]>>
TurnY(k, p) ==
    CASE k = 0 -> p
      [] k = 1 -> <<p[3], p[2], -p[1]>>
      [] k = 2 -> <<-p[1], p[2], -p[3]>>
      [] k = 3 -> <<-p[3], p[2], p[1]>>
TurnZ(k, p) ==
    CASE k = 0 -> p
      [] k = 1 -> <<-p[2], p[1], p[3]>>
      [] k = 2 -> <<-p[1], -p[2], p[3]>>
      [] k = 3 -> <<p[2], -p[1], p[3]>>

\* C22: rotate_point(p, rx, ry, rz) is (rx mod 4) X-steps, then (ry mod 4)
\* Y-steps, then (rz mod 4) Z-steps, for negative turn counts too; turn
\* counts that differ by 4 give the same point, and four steps about one
\* axis are the identity. p ranges over the points around the grid.
C22_RotatePoint ==
    \A p \in Positions :
        /\ \A rx \in Turns, ry \in Turns, rz \in Turns :
              rotate_point(p, rx, ry, rz) = TurnZ(rz % 4, TurnY(ry % 4, TurnX(rx % 4, p)))
        /\ \A r \in Rots, a \in {-1, 1} :
              rotate_point(p, r[1] + 4 * a, r[2] - 4 * a, r[3] + 8 * a)
                  = rotate_point(p, r[1], r[2], r[3])
        /\ rotate_point(p, 4, 0, 0) = p
        /\ rotate_point(p, 0, 4, 0) = p
        /\ rotate_point(p, 0, 0, 4) = p

\* The registry holds a brick that add made with a negative X turn count and
\* that the other order of the axes would have made differently.
C22_Witness ==
    \E id \in Keys, name \in ReplNames, rx \in Turns, ry \in Turns, rz \in Turns :
        /\ rx < 0
        /\ BrickOf(id) = normalized(rotated(bricks[name], rx, ry, rz))
        /\ BrickOf(id) # normalized(Brick([i \in 1..4 |->
                              rotate_point_zyx(bricks[name].cubes[i], rx, ry, rz)], name))

\* The live grid with the cells that hold id set to 0.
WithoutOwn(id) ==
    [Self EXCEPT !.grid = [c \in DOMAIN grid |-> IF grid[c] = id THEN 0 ELSE grid[c]]]

\* C23: for every registered id and every position p, can_move(id, p) is
\* true exactly when can_place(brick(id), p) is true on the grid with id's
\* own cells set to 0; a successful move(id, p) gives the grid that
\* remove(id) followed by place(brick(id), p) gives, except that the cells
\* hold id instead of the fresh id, the registry keeps the key id, and
\* next_id is not advanced.
C23_MoveIsRemovePlace ==
    \A id \in Keys, p \in Positions :
        /\ can_move(Self, id, p) <=> can_place(WithoutOwn(id), BrickOf(id), p)
        /\ can_move(Self, id, p) =>
              LET m  == move(Self, id, p)
                  r1 == remove(Self, id)
                  r2 == place(r1.self, BrickOf(id), p)
              IN  /\ m.raised = "" /\ r1.raised = "" /\ r2.raised = ""
                  /\ r2.ret = next_id
                  /\ m.self.grid = [c \in DOMAIN grid |->
                                       IF r2.self.grid[c] = r2.ret THEN id
                                       ELSE r2.self.grid[c]]
                  /\ DictKeys(m.self.placed) = Keys
                  /\ DictKeys(r2.self.placed) = (Keys \ {id}) \cup {r2.ret}
                  /\ DictGet(m.self.placed, id)[2] = DictGet(r2.self.placed, r2.ret)[2]
                  /\ DictGet(m.self.placed, id)[3] = DictGet(r2.self.placed, r2.ret)[3]
                  /\ m.self.next_id = next_id
                  /\ r2.self.next_id = next_id + 1

\* Two bricks are registered; one can move to a position that overlaps its
\* own old footprint (place on the live grid refuses it), and some other
\* position inside the grid is blocked by the other brick.
C23_Witness ==
    /\ Len(placed) = 2
    /\ \E id \in Keys, p \in Positions, q \in Positions :
          /\ p # PosOf(id)
          /\ can_move(Self, id, p)
          /\ ~can_place(Self, BrickOf(id), p)
          /\ ~can_move(Self, id, q)
          /\ \A c \in Footprint(BrickOf(id), q) : InBounds(size, c)

\* The cached origins of a template whose cell is 0 on the live grid.
EmptyCached(name) == {e \in valid_placements[name] : e \in DOMAIN grid /\ grid[e] = 0}

\* C24: can_not_place_somewhere(brick) returns true if and only if some
\* origin in the cached valid_placements of the brick's name has a 0 cell and
\* no cached orientation passes a live can_place there; it returns false
\* when no cached origin is currently empty.
C24_CannotPlaceSomewhere ==
    \A name \in DOMAIN valid_placements :
        LET r == can_not_place_somewhere(Self, bricks[name])
        IN  /\ r.raised = ""
            /\ r.ret <=> \E e \in EmptyCached(name) :
                             \A o \in Rots : ~can_place(Self, valid_rotations[name][o], e)
            /\ EmptyCached(name) = {} => r.ret = FALSE

\* The origins at which some shape of the template lies inside an empty
\* n x n x n grid.
EmptyGridOrigins(name, n) ==
    {p \in Cells(n) : \E sh \in Shapes[name] : \A c \in sh : InBounds(n, Add(p, c))}

\* C25: with no load, valid_placements[name] is in every state, whatever has
\* been placed, removed, moved or cleared since construction, exactly the set
\* of origins in [0,N)^3 at which at least one normalized orientation of the
\* template fits inside an empty N x N x N grid; place, remove, move and
\* clear hand the caches on unchanged.
C25_CacheIsStatic ==
    /\ DOMAIN valid_placements = Names
    /\ \A name \in Names : valid_placements[name] = EmptyGridOrigins(name, size)
    /\ clear(Self).self.valid_placements = valid_placements
    /\ \A id \in Ids :
          /\ remove(Self, id).self.valid_placements = valid_placements
          /\ \A p \in Positions : move(Self, id, p).self.valid_placements = valid_placements
    /\ \A b \in PlaceBricks, p \in Positions :
          place(Self, b, p).self.valid_placements = valid_placements

\* Two bricks are registered on a 3x3x3 grid; a cached T origin is occupied
\* and another cached T origin is empty but admits no orientation any more.
C25_Witness ==
    /\ size = 3
    /\ Len(placed) = 2
    /\ \E e \in valid_placements["T"] : grid[e] # 0
    /\ \E e \in valid_placements["T"] :
          /\ grid[e] = 0
          /\ \A o \in Rots : ~can_place(Self, valid_rotations["T"][o], e)

\* The footprints of the pairs validate_placements returns for a template.
ValidatedSets(name) ==
    LET r == validate_placements(Self, bricks[name])
    IN  {Footprint(valid_rotations[name][q[1]], q[2]) : q \in r.ret}

\* C26: validate_placements finds every live placement: it returns, and each
\* cell set the search reports without the adjacency filter is the footprint
\* of some pair validate_placements returns for the same template; so
\* validate_placements(T) is empty only if the search finds no T placement.
C26_ValidateFindsAll ==
    \A name \in DOMAIN valid_placements :
        /\ validate_placements(Self, bricks[name]).raised = ""
        /\ ResultSets(name, _find_placements(Self, name, FALSE)) \subseteq ValidatedSets(name)
        /\ validate_placements(Self, bricks[name]).ret = {}
              => _find_placements(Self, name, FALSE) = <<>>

\* C27: the T indicator of _update_indicator is consistent: in a state with
\* num_left() > 0, if can_not_place_somewhere(T) returns false (the label
\* shows "T's: YES") then validate_placements(T) is not empty, i.e. at least
\* one T placement exists.
C27_IndicatorConsistent ==
    num_left(Self) > 0 =>
        LET c == can_not_place_somewhere(Self, bricks["T"])
            v == validate_placements(Self, bricks["T"])
        IN  (c.raised = "" /\ c.ret = FALSE) => (v.raised = "" /\ v.ret # {})

\* C28: in every state reached by place, remove, move and clear with
\* orientations of the default templates, num_left() is the number of 0
\* cells and equals N^3 - 4 * (number of registry entries); num_left() = 0
\* holds exactly when the registered footprints cover the whole grid; a
\* move, successful or refused, does not change num_left().
C28_NumLeft ==
    LET num == num_left(Self)
    IN  /\ num = size * size * size - Cardinality(NonZero(grid))
        /\ num = size * size * size - 4 * Len(placed)
        /\ num = 0 <=> UNION {Footprint(BrickOf(id), PosOf(id)) : id \in Keys} = Cells(size)
        /\ \A id \in Keys, p \in Positions : num_left(move(Self, id, p).self) = num

\* The grid is full: two bricks tile the 2x2x2 grid and num_left() is 0.
C28_Witness ==
    /\ Len(placed) = 2
    /\ num_left(Self) = 0
    /\ \A c \in Cells(size) : grid[c] # 0

\* C29: after any load_from_file that returns without error, whatever the
\* records of the snapshot, every non-zero cell holds the id of a registered
\* placement whose footprint contains it, every cell of a registered
\* footprint is inside [0,size) on each axis and holds that placement's id
\* (so the footprints are disjoint), and next_id is greater than every
\* registered id; the same then holds in every state of the program.
C29_LoadedInvariant ==
    /\ \A path \in DOMAIN files :
          LET r == load_from_file(Self, files[path])
          IN  r.raised = "" =>
                 /\ \A c \in DOMAIN r.self.grid :
                       r.self.grid[c] # 0 =>
                          /\ DictHas(r.self.placed, r.self.grid[c])
                          /\ c \in Footprint(DictGet(r.self.placed, r.self.grid[c])[2],
                                             DictGet(r.self.placed, r.self.grid[c])[3])
                 /\ \A id \in DictKeys(r.self.placed) :
                       \A c \in Footprint(DictGet(r.self.placed, id)[2],
                                          DictGet(r.self.placed, id)[3]) :
                          InBounds(r.self.size, c) /\ r.self.grid[c] = id
                 /\ \A id \in DictKeys(r.self.placed) : r.self.next_id > id
    /\ \A c \in DOMAIN grid :
          grid[c] # 0 => grid[c] \in Keys /\ c \in Footprint(BrickOf(grid[c]), PosOf(grid[c]))
    /\ \A id \in Keys :
          \A c \in Footprint(BrickOf(id), PosOf(id)) : InBounds(size, c) /\ grid[c] = id
    /\ \A id \in Keys : next_id > id

====
